---- MODULE Spec2Model ----
(***************************************************************************)
(* Model of src/index.js: the handpose browser demo.  One JavaScript       *)
(* thread runs callbacks to completion; the model has one action per       *)
(* callback / promise continuation: the continuations of main, the two     *)
(* requestAnimationFrame loops (frameLandmarks, animate), the continuation *)
(* of the awaited model.estimateHands call, and the dat.GUI onChange       *)
(* callback.                                                               *)
(***************************************************************************)
EXTENDS Integers, Sequences, FiniteSets, TLC

\* ---------------------------------------------------------------- bounds
MaxFrames == 2          \* frameLandmarks iterations explored
MaxPredictions == 2     \* longest list estimateHands returns
NumHands == 2           \* distinct landmark sets the provider can return

\* ------------------------------------------------------- program constants
VIDEO_WIDTH == 640
VIDEO_HEIGHT == 500
NumLandmarks == 21

fingerLookupIndices ==
  [thumb        |-> <<0, 1, 2, 3, 4>>,
   indexFinger  |-> <<0, 5, 6, 7, 8>>,
   middleFinger |-> <<0, 9, 10, 11, 12>>,
   ringFinger   |-> <<0, 13, 14, 15, 16>>,
   pinky        |-> <<0, 17, 18, 19, 20>>]

\* Object.keys(fingerLookupIndices), in insertion order
fingers == <<"thumb", "indexFinger", "middleFinger", "ringFinger", "pinky">>

NoCameraApiMessage == "Browser API navigator.mediaDevices.getUserMedia not available"
GetUserMediaErrors == {"NotAllowedError", "NotFoundError"}
ModelLoadError == "handpose.load failed"

VARIABLES
  mobile,          \* isMobile() at module evaluation
  cameraApi,       \* navigator.mediaDevices.getUserMedia is available
  mainPc,          \* where main() is: awaitModel, awaitStream, awaitMetadata, resolved, rejected
  mainError,       \* message of the error main() rejected with ("" if none)
  info,            \* the #info status element: [display, textContent]
  state,           \* the dat.GUI state object (a function from property name to value)
  guiControls,     \* the 'renderPointcloud' checkbox exists
  scatterDisplay,  \* style.display of #scatter-gl-container
  canvas,          \* the 2D canvas: [video, arcs, paths, keypoints]
  nodeGroup,       \* children of nodeGroup: spheres [position, frame]
  handLineGroup,   \* children of handLineGroup: lines [points, frame]
  scene,           \* [created, children]
  rafQueue,        \* pending requestAnimationFrame callbacks, per callback
  inFlight,        \* frameLandmarks invocations suspended at the await
  frameNo,         \* frameLandmarks invocations started so far
  lastIter,        \* how the most recently ended iteration ended: its kind, frame
                   \* number, predictions, the callbacks that ran during its
                   \* await, and the kind of the iteration that ended before it
  awaitEvents,     \* callbacks that ran since the latest iteration suspended
  rendered         \* <<spheres, lines>> seen by the latest renderer.render

vars == <<mobile, cameraApi, mainPc, mainError, info, state, guiControls,
          scatterDisplay, canvas, nodeGroup, handLineGroup, scene, rafQueue,
          inFlight, frameNo, lastIter, awaitEvents, rendered>>

\* ------------------------------------------------------ landmark provider
\* A landmark set: 21 points; JS index i is TLA index i + 1.
Hand(k) == [i \in 1..NumLandmarks |-> <<10 * k + (i - 1), 20 * k + 2 * (i - 1), 5 * k - (i - 1)>>]

Hands == {Hand(k) : k \in 1..NumHands}

Predictions == [landmarks : Hands]

PredictionLists == UNION {[1..n -> Predictions] : n \in 0..MaxPredictions}


\* ------------------------------------------------------------ environment
\* renderPointcloud = (mobile === false)
renderPointcloud == mobile = FALSE

\* the test `renderPointcloud === true` that guards the 3D rebuild
shouldRenderPointcloud_flag == "renderPointcloud" \in DOMAIN state /\ state["renderPointcloud"]

shouldRenderPointcloud == renderPointcloud = TRUE

\* requestAnimationFrame(cb) on the queue q
requestAnimationFrame(q, cb) == [q EXCEPT ![cb] = @ + 1]

\* ------------------------------------------------------ 2D overlay renderer
\* drawPoint(ctx, y, x, r): ctx.arc(x, y, r, ...)
drawPoint(y, x, r) == <<x, y, r>>

\* drawPath(ctx, points, closePath): moveTo(points[0]) then lineTo the rest
drawPath(points, closePath) ==
  [pts |-> [i \in 1..Len(points) |-> <<points[i][1], points[i][2]>>], closed |-> closePath]

\* drawKeypoints(ctx, keypoints): 21 filled circles, then one open path per finger
drawKeypoints(keypoints) ==
  [arcs  |-> [i \in 1..Len(keypoints) |->
                LET y == keypoints[i][1]
                    x == keypoints[i][2]
                IN  drawPoint(x - 2, y - 2, 3)],
   paths |-> [f \in 1..Len(fingers) |->
                LET idxs == fingerLookupIndices[fingers[f]]
                IN  drawPath([j \in 1..Len(idxs) |-> keypoints[idxs[j] + 1]], FALSE)],
   keypoints |-> keypoints]

\* ctx.drawImage(video, ...): the video frame replaces what was drawn before
drawImage == [arcs |-> <<>>, paths |-> <<>>, keypoints |-> <<>>]

\* ------------------------------------------------------ 3D hand visualizer
\* result.map(point => [-point[0], -point[1], -point[2]])
pointsData(result) ==
  [i \in 1..Len(result) |-> <<0 - result[i][1], 0 - result[i][2], 0 - result[i][3]>>]

\* removeMesh(group): remove the last child until none is left
RECURSIVE removeMesh(_)
removeMesh_forward(group) ==
  [i \in 1..(Len(group) \div 2) |-> group[2 * i]]

removeMesh(group) ==
  IF Len(group) = 0 THEN group
  ELSE removeMesh(SubSeq(group, 1, Len(group) - 1))

\* drawFingerNode(x, y, z): a new sphere mesh appended to nodeGroup;
\* tag stands for the identity of the object made in that iteration
drawFingerNode(group, x, y, z, tag) ==
  Append(group, [position |-> <<x, y, z>>, frame |-> tag])

\* for (let i = 0; i < 21; i++) drawFingerNode(pd[i][0] + W, pd[i][1] + H, pd[i][2])
RECURSIVE drawFingerNodes(_, _, _, _)
drawFingerNodes(group, pd, i, tag) ==
  IF i < NumLandmarks
  THEN drawFingerNodes(
         drawFingerNode(group, pd[i + 1][1] + VIDEO_WIDTH, pd[i + 1][2] + VIDEO_HEIGHT,
                        pd[i + 1][3], tag),
         pd, i + 1, tag)
  ELSE group

\* drawFingerMesh(points, geometry, line, idx1, idx2): the wrist sphere's
\* position, then the positions of spheres idx1..idx2, as one line
drawFingerMesh_offByOne(lines, nodes, idx1, idx2, tag) ==
  Append(lines,
         [points |-> <<nodes[1].position>> \o
                     [k \in 1..(idx2 - idx1) |-> nodes[idx1 + k].position],
          frame |-> tag])

drawFingerMesh(lines, nodes, idx1, idx2, tag) ==
  Append(lines,
         [points |-> <<nodes[1].position>> \o
                     [k \in 1..(idx2 - idx1 + 1) |-> nodes[idx1 + k].position],
          frame |-> tag])

\* initHandPose(): one drawFingerMesh per finger, from table entry [1] to [4]
initHandPose_noPinky(lines, nodes, tag) ==
  LET F == fingerLookupIndices
      l1 == drawFingerMesh(lines, nodes, F.thumb[2], F.thumb[5], tag)
      l2 == drawFingerMesh(l1, nodes, F.indexFinger[2], F.indexFinger[5], tag)
      l3 == drawFingerMesh(l2, nodes, F.middleFinger[2], F.middleFinger[5], tag)
  IN  drawFingerMesh(l3, nodes, F.ringFinger[2], F.ringFinger[5], tag)

initHandPose(lines, nodes, tag) ==
  LET F == fingerLookupIndices
      l1 == drawFingerMesh(lines, nodes, F.thumb[2], F.thumb[5], tag)
      l2 == drawFingerMesh(l1, nodes, F.indexFinger[2], F.indexFinger[5], tag)
      l3 == drawFingerMesh(l2, nodes, F.middleFinger[2], F.middleFinger[5], tag)
      l4 == drawFingerMesh(l3, nodes, F.ringFinger[2], F.ringFinger[5], tag)
  IN  drawFingerMesh(l4, nodes, F.pinky[2], F.pinky[5], tag)

\* initFingers(): scene = new THREE.Scene() with the two lights added
initFingers_skipped == scene

initFingers == [created |-> TRUE, children |-> {"AmbientLight", "DirectionalLight"}]

\* what renderer.render(scene, camera) draws of a scene value sc
SceneSpheres(sc, nodes) == IF "nodeGroup" \in sc.children THEN Len(nodes) ELSE 0

SceneLines(sc, lines) == IF "handLineGroup" \in sc.children THEN Len(lines) ELSE 0

\* predictions[0].landmarks
result_last(predictions) == predictions[Len(predictions)].landmarks

result(predictions) == predictions[1].landmarks

\* ------------------------------------------------------------------ Init
\* Module evaluation: mobile and renderPointcloud are fixed, state gets its
\* property on desktop only, and main() has run up to `await handpose.load()`.
Init ==
  /\ mobile \in BOOLEAN
  /\ cameraApi \in BOOLEAN
  /\ mainPc = "awaitModel"
  /\ mainError = ""
  /\ info = [display |-> "none", textContent |-> ""]
  /\ state = IF mobile = FALSE THEN [p \in {"renderPointcloud"} |-> TRUE] ELSE <<>>
  /\ guiControls = FALSE
  /\ scatterDisplay = "inline-block"
  /\ canvas = [arcs |-> <<>>, paths |-> <<>>, keypoints |-> <<>>]
  /\ nodeGroup = <<>>
  /\ handLineGroup = <<>>
  /\ scene = [created |-> FALSE, children |-> {}]
  /\ rafQueue = [cb \in {"frameLandmarks", "animate"} |-> 0]
  /\ inFlight = 0
  /\ frameNo = 0
  /\ lastIter = [kind |-> "init", frame |-> 0, predictions |-> <<>>, events |-> {},
                 prev |-> "init"]
  /\ awaitEvents = {}
  /\ rendered = <<0, 0>>

\* ------------------------------------------------------------------ main
\* handpose.load() rejects: main rejects before the try block
ModelLoadFailed ==
  /\ mainPc = "awaitModel"
  /\ mainPc' = "rejected"
  /\ mainError' = ModelLoadError
  /\ UNCHANGED <<mobile, cameraApi, info, state, guiControls, scatterDisplay, canvas,
                 nodeGroup, handLineGroup, scene, rafQueue, inFlight, frameNo,
                 lastIter, awaitEvents, rendered>>

\* handpose.load() resolves: loadVideo() -> setupCamera() runs to its await,
\* or throws when the camera API is absent, which main's catch reports
ModelLoaded ==
  /\ mainPc = "awaitModel"
  /\ IF cameraApi
     THEN /\ mainPc' = "awaitStream"
          /\ UNCHANGED <<mainError, info>>
     ELSE /\ info' = [display |-> "block", textContent |-> NoCameraApiMessage]
          /\ mainError' = NoCameraApiMessage
          /\ mainPc' = "rejected"
  /\ UNCHANGED <<mobile, cameraApi, state, guiControls, scatterDisplay, canvas,
                 nodeGroup, handLineGroup, scene, rafQueue, inFlight, frameNo,
                 lastIter, awaitEvents, rendered>>

\* getUserMedia resolves: video.srcObject = stream, wait for onloadedmetadata
StreamGranted ==
  /\ mainPc = "awaitStream"
  /\ mainPc' = "awaitMetadata"
  /\ UNCHANGED <<mobile, cameraApi, mainError, info, state, guiControls, scatterDisplay,
                 canvas, nodeGroup, handLineGroup, scene, rafQueue, inFlight, frameNo,
                 lastIter, awaitEvents, rendered>>

\* getUserMedia rejects with e: main's catch shows e.message and rethrows
StreamRejected_swallowed ==
  /\ mainPc = "awaitStream"
  /\ \E e \in GetUserMediaErrors :
       /\ info' = [display |-> "block", textContent |-> e]
       /\ mainError' = e
  /\ mainPc' = "awaitMetadata"
  /\ UNCHANGED <<mobile, cameraApi, state, guiControls, scatterDisplay, canvas,
                 nodeGroup, handLineGroup, scene, rafQueue, inFlight, frameNo,
                 lastIter, awaitEvents, rendered>>

StreamRejected ==
  /\ mainPc = "awaitStream"
  /\ \E e \in GetUserMediaErrors :
       /\ info' = [display |-> "block", textContent |-> e]
       /\ mainError' = e
  /\ mainPc' = "rejected"
  /\ UNCHANGED <<mobile, cameraApi, state, guiControls, scatterDisplay, canvas,
                 nodeGroup, handLineGroup, scene, rafQueue, inFlight, frameNo,
                 lastIter, awaitEvents, rendered>>

\* video.onloadedmetadata fires: setupCamera and loadVideo resolve, main calls
\* landmarksRealTime(video), which runs to its end without suspending:
\* setupDatGui(), canvas setup, frameLandmarks() up to its await,
\* initFingers(), animate()
landmarksRealTime ==
  /\ mainPc = "awaitMetadata"
  /\ mainPc' = "resolved"
  /\ guiControls' = renderPointcloud
  /\ canvas' = drawImage
  /\ frameNo' = frameNo + 1
  /\ inFlight' = inFlight + 1
  /\ awaitEvents' = {}
  /\ scene' = initFingers
  /\ rafQueue' = requestAnimationFrame(rafQueue, "animate")
  /\ rendered' = <<SceneSpheres(scene', nodeGroup), SceneLines(scene', handLineGroup)>>
  /\ UNCHANGED <<mobile, cameraApi, mainError, info, state, scatterDisplay, nodeGroup,
                 handLineGroup, lastIter>>

\* ------------------------------------------------------------ frame loop
\* The requestAnimationFrame callback frameLandmarks, up to
\* `await model.estimateHands(video)`
frameLandmarksBegin_scheduleFirst ==
  /\ rafQueue["frameLandmarks"] > 0
  /\ frameNo < MaxFrames
  /\ rafQueue' = requestAnimationFrame([rafQueue EXCEPT !["frameLandmarks"] = @ - 1],
                                       "frameLandmarks")
  /\ frameNo' = frameNo + 1
  /\ canvas' = drawImage
  /\ inFlight' = inFlight + 1
  /\ awaitEvents' = {}
  /\ UNCHANGED <<mobile, cameraApi, mainPc, mainError, info, state, guiControls,
                 scatterDisplay, nodeGroup, handLineGroup, scene, lastIter, rendered>>

frameLandmarksBegin ==
  /\ rafQueue["frameLandmarks"] > 0
  /\ frameNo < MaxFrames
  /\ rafQueue' = [rafQueue EXCEPT !["frameLandmarks"] = @ - 1]
  /\ frameNo' = frameNo + 1
  /\ canvas' = drawImage
  /\ inFlight' = inFlight + 1
  /\ awaitEvents' = {}
  /\ UNCHANGED <<mobile, cameraApi, mainPc, mainError, info, state, guiControls,
                 scatterDisplay, nodeGroup, handLineGroup, scene, lastIter, rendered>>

\* estimateHands resolves with predictions: the rest of frameLandmarks
frameLandmarksResume ==
  /\ inFlight > 0
  /\ inFlight' = inFlight - 1
  /\ \E predictions \in PredictionLists :
       LET ended(k) == [kind |-> k, frame |-> frameNo, predictions |-> predictions,
                        events |-> awaitEvents, prev |-> lastIter.kind]
       IN
       IF Len(predictions) > 0
       THEN /\ canvas' = drawKeypoints(result(predictions))
            /\ IF shouldRenderPointcloud
               THEN LET pd == pointsData(result(predictions))
                        nodes == drawFingerNodes(removeMesh(nodeGroup), pd, 0, frameNo)
                        lines == initHandPose(removeMesh(handLineGroup), nodes, frameNo)
                    IN  /\ nodeGroup' = nodes
                        /\ handLineGroup' = lines
                        /\ IF scene.created
                           THEN /\ scene' = [scene EXCEPT !.children =
                                               @ \cup {"nodeGroup", "handLineGroup"}]
                                /\ rafQueue' = requestAnimationFrame(rafQueue, "frameLandmarks")
                                /\ lastIter' = ended("detected")
                           ELSE \* scene.add on undefined throws a TypeError
                                /\ lastIter' = ended("threw")
                                /\ UNCHANGED <<scene, rafQueue>>
               ELSE /\ rafQueue' = requestAnimationFrame(rafQueue, "frameLandmarks")
                    /\ lastIter' = ended("detected")
                    /\ UNCHANGED <<nodeGroup, handLineGroup, scene>>
       ELSE /\ rafQueue' = requestAnimationFrame(rafQueue, "frameLandmarks")
            /\ lastIter' = ended("none")
            /\ UNCHANGED <<canvas, nodeGroup, handLineGroup, scene>>
  /\ UNCHANGED <<mobile, cameraApi, mainPc, mainError, info, state, guiControls,
                 scatterDisplay, frameNo, awaitEvents, rendered>>

\* estimateHands rejects: the await throws and frameLandmarks ends there
frameLandmarksReject ==
  /\ inFlight > 0
  /\ inFlight' = inFlight - 1
  /\ lastIter' = [kind |-> "failed", frame |-> frameNo, predictions |-> <<>>,
                  events |-> awaitEvents, prev |-> lastIter.kind]
  /\ UNCHANGED <<mobile, cameraApi, mainPc, mainError, info, state, guiControls,
                 scatterDisplay, canvas, nodeGroup, handLineGroup, scene, rafQueue,
                 frameNo, awaitEvents, rendered>>

\* The requestAnimationFrame callback animate
animate ==
  /\ rafQueue["animate"] > 0
  /\ rafQueue' = requestAnimationFrame([rafQueue EXCEPT !["animate"] = @ - 1], "animate")
  /\ rendered' = <<SceneSpheres(scene, nodeGroup), SceneLines(scene, handLineGroup)>>
  /\ awaitEvents' = IF inFlight > 0 THEN awaitEvents \cup {"animate"} ELSE awaitEvents
  /\ UNCHANGED <<mobile, cameraApi, mainPc, mainError, info, state, guiControls,
                 scatterDisplay, canvas, nodeGroup, handLineGroup, scene, inFlight,
                 frameNo, lastIter>>

\* ------------------------------------------------------------ debug panel
\* The user flips the checkbox: dat.GUI sets state.renderPointcloud and calls
\* the onChange callback with the new value
toggleRenderPointcloud ==
  /\ guiControls
  /\ LET render == ~state["renderPointcloud"]
     IN  /\ state' = [state EXCEPT !["renderPointcloud"] = render]
         /\ scatterDisplay' = IF render THEN "inline-block" ELSE "none"
  /\ awaitEvents' = IF inFlight > 0 THEN awaitEvents \cup {"toggle"} ELSE awaitEvents
  /\ UNCHANGED <<mobile, cameraApi, mainPc, mainError, info, guiControls, canvas,
                 nodeGroup, handLineGroup, scene, rafQueue, inFlight, frameNo,
                 lastIter, rendered>>

Next ==
  \/ ModelLoadFailed
  \/ ModelLoaded
  \/ StreamGranted
  \/ StreamRejected
  \/ landmarksRealTime
  \/ frameLandmarksBegin
  \/ frameLandmarksResume
  \/ frameLandmarksReject
  \/ animate
  \/ toggleRenderPointcloud

Spec == Init /\ [][Next]_vars

\* =============================================================== claims
\* What renderer.render would draw of the current scene
Spheres == SceneSpheres(scene, nodeGroup)

Lines == SceneLines(scene, handLineGroup)

\* The landmark set the last ended iteration took from its predictions
LastLandmarks == lastIter.predictions[1].landmarks

\* The position the spec gives a landmark in the 3D scene
Transformed(p) == <<640 - p[1], 500 - p[2], 0 - p[3]>>

\* An iteration has just ended and the next has not begun
JustEnded == inFlight = 0 /\ lastIter.kind # "init"

\* C1: after an iteration in which the provider returned zero predictions the
\* 3D scene holds zero spheres and zero lines, whatever came before.
C1_AbsenceClearsScene ==
  lastIter.kind = "none" => Spheres = 0 /\ Lines = 0

\* C2: every iteration that started and has ended, however its inference call
\* ended, has scheduled the next iteration.
C2_NextAlwaysScheduled ==
  JustEnded => rafQueue["frameLandmarks"] >= 1

\* C3: on a desktop target the groups never hold more than 21 spheres and 5
\* lines; right after an iteration with a prediction they hold exactly 21 and
\* 5, all of them made by that iteration (every earlier object was removed).
C3_NoAccumulation ==
  renderPointcloud =>
    /\ Len(nodeGroup) <= 21
    /\ Len(handLineGroup) <= 5
    /\ lastIter.kind = "detected" =>
         /\ Len(nodeGroup) = 21
         /\ Len(handLineGroup) = 5
         /\ \A i \in 1..Len(nodeGroup) : nodeGroup[i].frame = lastIter.frame
         /\ \A i \in 1..Len(handLineGroup) : handLineGroup[i].frame = lastIter.frame

C3_Witness ==
  /\ renderPointcloud
  /\ lastIter.kind = "detected"
  /\ lastIter.prev = "detected"
  /\ Len(nodeGroup) = 21
  /\ nodeGroup[1].frame = lastIter.frame

\* C4: at most one frameLandmarks iteration is suspended or pending at any
\* time, a callback is pending only when no iteration is in flight, and an
\* iteration that ran to its end left exactly one callback pending.
C4_OneIterationInFlight ==
  /\ inFlight + rafQueue["frameLandmarks"] <= 1
  /\ (inFlight = 0 /\ lastIter.kind \in {"none", "detected"}) =>
       rafQueue["frameLandmarks"] = 1

C4_Witness ==
  /\ inFlight = 1
  /\ frameNo >= 2
  /\ awaitEvents = {"toggle", "animate"}

\* C5: when camera acquisition fails (no camera API, or getUserMedia rejects)
\* the status element is shown with the error's message, main has rejected
\* with that error, and the frame loop never starts; the status element is
\* shown in no other execution.
CameraErrors == {NoCameraApiMessage} \cup GetUserMediaErrors

C5_CameraFailureIsFatal ==
  /\ mainError \in CameraErrors =>
       /\ info = [display |-> "block", textContent |-> mainError]
       /\ mainPc = "rejected"
       /\ frameNo = 0
       /\ inFlight = 0
       /\ \A cb \in DOMAIN rafQueue : rafQueue[cb] = 0
       /\ ~guiControls
       /\ ~scene.created
  /\ info.display = "block" => mainError \in CameraErrors

C5_Witness ==
  /\ mainError \in GetUserMediaErrors
  /\ mainPc = "rejected"
  /\ info.display = "block"

\* C6 as stated: after every iteration with at least one prediction, on
\* every target, the first prediction's landmarks were drawn on the 2D
\* canvas and the 3D scene holds 21 spheres and 5 lines built from them.
C6_BothRenderersEveryTarget ==
  (JustEnded /\ lastIter.kind = "detected") =>
    /\ canvas.keypoints = LastLandmarks
    /\ Spheres = 21
    /\ Lines = 5
    /\ \A i \in 1..21 : nodeGroup[i].position = Transformed(LastLandmarks[i])

\* C6 as amended: after every iteration with at least one prediction the
\* first prediction's landmarks (and no other's) were drawn on the 2D canvas
\* on every target; on a desktop target the 3D scene then holds 21 spheres
\* and 5 lines built from them, on a mobile target it holds none.
C6_BothRenderersOnDesktop ==
  (JustEnded /\ lastIter.kind = "detected") =>
    /\ canvas.keypoints = LastLandmarks
    /\ Len(canvas.arcs) = 21
    /\ Len(canvas.paths) = 5
    /\ IF renderPointcloud
       THEN /\ Spheres = 21
            /\ Lines = 5
            /\ \A i \in 1..21 : nodeGroup[i].position = Transformed(LastLandmarks[i])
       ELSE /\ Spheres = 0
            /\ Lines = 0
            /\ nodeGroup = <<>>
            /\ handLineGroup = <<>>

C6_Witness ==
  /\ mobile
  /\ JustEnded
  /\ lastIter.kind = "detected"
  /\ Len(lastIter.predictions) = 2
  /\ lastIter.predictions[1] # lastIter.predictions[2]
  /\ canvas.keypoints = LastLandmarks

\* C7: a toggle of the 'render point cloud' control changes nothing but the
\* flag and the container's display style; an iteration that ends with the
\* flag off, or that was toggled during its await, still schedules the next
\* one and, on a detection, still builds the 21 spheres and 5 lines at the
\* positions the landmarks give.
C7_Toggled(it) == state["renderPointcloud"] = FALSE \/ "toggle" \in it.events

C7_StateInvariant ==
  (guiControls /\ C7_Toggled(lastIter)) =>
    /\ (inFlight = 0 /\ lastIter.kind \in {"none", "detected"}) =>
         rafQueue["frameLandmarks"] = 1
    /\ lastIter.kind = "detected" =>
         /\ Len(nodeGroup) = 21
         /\ Len(handLineGroup) = 5
         /\ \A i \in 1..21 :
              /\ nodeGroup[i].position = Transformed(LastLandmarks[i])
              /\ nodeGroup[i].frame = lastIter.frame

C7_ToggleOnlyDisplay ==
  /\ []C7_StateInvariant
  /\ [][state' # state =>
          UNCHANGED <<mobile, cameraApi, mainPc, mainError, info, guiControls, canvas,
                      nodeGroup, handLineGroup, scene, rafQueue, inFlight, frameNo,
                      lastIter, rendered>>]_vars

C7_Witness ==
  /\ guiControls
  /\ state["renderPointcloud"] = FALSE
  /\ scatterDisplay = "none"
  /\ "toggle" \in lastIter.events
  /\ lastIter.kind = "detected"
  /\ lastIter.frame >= 2
  /\ Len(nodeGroup) = 21
  /\ nodeGroup[1].frame = lastIter.frame

\* C8: for each finger of the table the line built for it has exactly 5
\* points: the wrist's transformed position, then the transformed positions
\* of the finger's other four table indices in order, a landmark (x, y, z)
\* being transformed to (640 - x, 500 - y, -z); (10, 20, 5) gives
\* (630, 480, -5).
C8_FingerLines ==
  (renderPointcloud /\ lastIter.kind = "detected") =>
    /\ Len(handLineGroup) = 5
    /\ \A f \in 1..5 :
         LET idxs == fingerLookupIndices[fingers[f]]
             pts == handLineGroup[f].points
         IN  /\ Len(pts) = 5
             /\ pts[1] = Transformed(LastLandmarks[0 + 1])
             /\ \A j \in 2..5 : pts[j] = Transformed(LastLandmarks[idxs[j] + 1])
    /\ LastLandmarks[1] = <<10, 20, 5>> => handLineGroup[1].points[1] = <<630, 480, -5>>

C8_Witness ==
  /\ renderPointcloud
  /\ lastIter.kind = "detected"
  /\ LastLandmarks[1] = <<10, 20, 5>>
  /\ Len(handLineGroup) = 5
  /\ handLineGroup[5].points[5] = Transformed(LastLandmarks[21])

\* C9: whenever an iteration is suspended at its await or pending, the scene
\* has been created; no iteration has thrown at scene.add, and the groups
\* hold geometry only when they have been added to the scene.
C9_SceneCreatedBeforeAdd ==
  /\ (inFlight > 0 \/ rafQueue["frameLandmarks"] > 0) => scene.created
  /\ lastIter.kind # "threw"
  /\ Len(nodeGroup) > 0 => {"nodeGroup", "handLineGroup"} \subseteq scene.children

C9_Witness ==
  /\ lastIter.frame = 1
  /\ lastIter.kind = "detected"
  /\ renderPointcloud
  /\ scene.created
  /\ "nodeGroup" \in scene.children
  /\ Len(nodeGroup) = 21

\* C10: whatever the interleaving of the two requestAnimationFrame loops,
\* renderer.render sees (0, 0) or (21, 5) spheres and lines, never a partly
\* removed or partly rebuilt hand.
C10_RenderSeesWholeHand ==
  rendered \in {<<0, 0>>, <<21, 5>>}

C10_Witness ==
  /\ rendered = <<21, 5>>
  /\ inFlight = 1
  /\ "animate" \in awaitEvents
  /\ lastIter.kind = "detected"

====
